---- MODULE Spec2Model ----
(***************************************************************************)
(* Model of the in-memory AWS services registry of FastAPI/api.py.         *)
(*                                                                         *)
(* Text is a sequence of one-character strings, so that str.lower() and    *)
(* str.isdigit() are computed character by character as Python does.       *)
(* An optional query parameter is <<>> (None) or <<text>> (given).         *)
(***************************************************************************)
EXTENDS Integers, Sequences, FiniteSets, TLC

VARIABLES
  aws_services,  \* the module-level list of {'name', 'category'} records
  last,          \* the last request handled sequentially and its response
  scen,          \* how many calls of the scenario the run has made so far, -1 once it left it
  pc,            \* per worker thread: position inside its handler
  req,           \* per worker thread: the request it is handling
  loc,           \* per worker thread: handler locals (match_idx)
  resp,          \* per worker thread: the response of its request
  start,         \* the list when the current pair of concurrent requests began
  round          \* how many pairs of concurrent requests have been dispatched

vars == <<aws_services, last, scen, pc, req, loc, resp, start, round>>

seqVars == <<aws_services, last, scen>>
concVars == <<pc, req, loc, resp, start, round>>

----------------------------------------------------------------------------
(* Bounds *)

MaxLen == 6       \* no add is made that would grow the list beyond MaxLen records
MaxRounds == 1    \* pairs of concurrent requests dispatched in one run

----------------------------------------------------------------------------
(* Text *)

Uppers == <<"A","B","C","D","E","F","G","H","I","J","K","L","M",
            "N","O","P","Q","R","S","T","U","V","W","X","Y","Z">>
Lowers == <<"a","b","c","d","e","f","g","h","i","j","k","l","m",
            "n","o","p","q","r","s","t","u","v","w","x","y","z">>
Digits == {"0","1","2","3","4","5","6","7","8","9"}

Chars == {Uppers[i] : i \in 1..Len(Uppers)} \cup {Lowers[i] : i \in 1..Len(Lowers)} \cup Digits

\* the lower-case form of each character: upper-case letters change, all others stay
LowerChar ==
  [c \in Chars |->
     IF \E i \in 1..Len(Uppers) : Uppers[i] = c
     THEN Lowers[CHOOSE i \in 1..Len(Uppers) : Uppers[i] = c]
     ELSE c]

\* str.lower()
lower(s) == [i \in 1..Len(s) |-> LowerChar[s[i]]]

\* str.isdigit(): non-empty and every character a digit
isdigit(s) == Len(s) > 0 /\ \A i \in 1..Len(s) : s[i] \in Digits

\* Python truthiness of a str
Truthy(s) == Len(s) > 0

\* Optional[str]: None or a value
None == <<>>
Some(s) == <<s>>
IsNone(o) == Len(o) = 0

\* truthiness of an Optional[str] (`if name:`)
TruthyOpt(o) == ~IsNone(o) /\ Truthy(o[1])

----------------------------------------------------------------------------
(* Records and the seed *)

Svc(n, c) == [name |-> n, category |-> c]

S3       == <<"S","3">>
Lambda   == <<"L","a","m","b","d","a">>
EC2      == <<"E","C","2">>
RDS      == <<"R","D","S">>
DynamoDB == <<"D","y","n","a","m","o","D","B">>
Storage  == <<"S","t","o","r","a","g","e">>
Compute  == <<"C","o","m","p","u","t","e">>
Database == <<"D","a","t","a","b","a","s","e">>

SeedServices ==
  << Svc(S3, Storage), Svc(Lambda, Compute), Svc(EC2, Compute),
     Svc(RDS, Database), Svc(DynamoDB, Database) >>

\* request inputs
Redshift   == <<"R","e","d","s","h","i","f","t">>
redshift   == <<"r","e","d","s","h","i","f","t">>
ec2        == <<"e","c","2">>
Num123     == <<"1","2","3">>
Empty      == <<>>
database   == <<"d","a","t","a","b","a","s","e">>
compute    == <<"c","o","m","p","u","t","e">>
dynamodb   == <<"d","y","n","a","m","o","d","b">>

NameInputs == {Empty, Num123, Redshift, redshift, ec2}
CategoryInputs == {Empty, Database, database, compute}
PathNames == NameInputs \ {Empty}
PathCategories == CategoryInputs \ {Empty}
NameFilters == {None} \cup {Some(n) : n \in NameInputs}
CategoryFilters == {None} \cup {Some(c) : c \in CategoryInputs}

----------------------------------------------------------------------------
(* HTTP status codes *)

HTTP_200 == 200
HTTP_201 == 201
HTTP_400 == 400
HTTP_404 == 404
HTTP_409 == 409

----------------------------------------------------------------------------
(* Sequence helpers *)

\* list.pop(i) for a 1-based index within range
Pop(s, i) == [j \in 1..(Len(s) - 1) |-> IF j < i THEN s[j] ELSE s[j + 1]]

\* [x for x in s if x['name'].lower() == n], n the lower-cased filter
RECURSIVE SelectName(_, _)
SelectName(s, n) ==
  IF s = <<>> THEN <<>>
  ELSE IF lower(Head(s).name) = n
       THEN <<Head(s)>> \o SelectName(Tail(s), n)
       ELSE SelectName(Tail(s), n)

\* [x for x in s if x['category'].lower() == c], c the lower-cased filter
RECURSIVE SelectCategory(_, _)
SelectCategory(s, c) ==
  IF s = <<>> THEN <<>>
  ELSE IF lower(Head(s).category) = c
       THEN <<Head(s)>> \o SelectCategory(Tail(s), c)
       ELSE SelectCategory(Tail(s), c)

----------------------------------------------------------------------------
(* Handlers as functions of the list: each gives the status, the response  *)
(* body and the list afterwards.                                           *)

Response(st, body, services) == [status |-> st, body |-> body, services |-> services]

\* the body of an HTTPException is not a list of services
ErrorBody == <<>>

\* get_services with `elif category`: the category filter is skipped when a name is given
get_services_elif(services, name, category) ==
  LET r2 == IF TruthyOpt(name) THEN SelectName(services, lower(name[1]))
            ELSE IF TruthyOpt(category) THEN SelectCategory(services, lower(category[1]))
            ELSE services
  IN  Response(HTTP_200, r2, services)

\* get_services(name, category)
get_services(services, name, category) ==
  LET r1 == IF TruthyOpt(name) THEN SelectName(services, lower(name[1])) ELSE services
      r2 == IF TruthyOpt(category) THEN SelectCategory(r1, lower(category[1])) ELSE r1
  IN  Response(HTTP_200, r2, services)

\* existing_pairs of add_service
existing_pairs(services) ==
  {<<lower(services[i].name), lower(services[i].category)>> : i \in 1..Len(services)}

\* add_service without the duplicate check of lines 70-72
add_service_no_dup_check(services, name, category) ==
  IF ~Truthy(name) \/ ~Truthy(category)
  THEN Response(HTTP_400, ErrorBody, services)
  ELSE IF isdigit(name)
  THEN Response(HTTP_400, ErrorBody, services)
  ELSE LET new == Append(services, Svc(name, category))
       IN  Response(HTTP_201, new, new)

\* add_service comparing the pair without .lower()
add_service_case_sensitive(services, name, category) ==
  IF ~Truthy(name) \/ ~Truthy(category)
  THEN Response(HTTP_400, ErrorBody, services)
  ELSE IF \E i \in 1..Len(services) : services[i] = Svc(name, category)
  THEN Response(HTTP_409, ErrorBody, services)
  ELSE IF isdigit(name)
  THEN Response(HTTP_400, ErrorBody, services)
  ELSE LET new == Append(services, Svc(name, category))
       IN  Response(HTTP_201, new, new)

\* add_service rejecting a name that holds any digit
add_service_any_digit(services, name, category) ==
  IF ~Truthy(name) \/ ~Truthy(category)
  THEN Response(HTTP_400, ErrorBody, services)
  ELSE IF <<lower(name), lower(category)>> \in existing_pairs(services)
  THEN Response(HTTP_409, ErrorBody, services)
  ELSE IF \E i \in 1..Len(name) : name[i] \in Digits
  THEN Response(HTTP_400, ErrorBody, services)
  ELSE LET new == Append(services, Svc(name, category))
       IN  Response(HTTP_201, new, new)

\* add_service without the digits-only check of lines 74-75
add_service_no_digit_check(services, name, category) ==
  IF ~Truthy(name) \/ ~Truthy(category)
  THEN Response(HTTP_400, ErrorBody, services)
  ELSE IF <<lower(name), lower(category)>> \in existing_pairs(services)
  THEN Response(HTTP_409, ErrorBody, services)
  ELSE LET new == Append(services, Svc(name, category))
       IN  Response(HTTP_201, new, new)

\* add_service(payload)
add_service(services, name, category) ==
  IF ~Truthy(name) \/ ~Truthy(category)
  THEN Response(HTTP_400, ErrorBody, services)
  ELSE IF <<lower(name), lower(category)>> \in existing_pairs(services)
  THEN Response(HTTP_409, ErrorBody, services)
  ELSE IF isdigit(name)
  THEN Response(HTTP_400, ErrorBody, services)
  ELSE LET new == Append(services, Svc(name, category))
       IN  Response(HTTP_201, new, new)

\* the scan of delete_service comparing the name without .lower()
MatchIdxByName_case_sensitive(services, name) ==
  LET hits == {i \in 1..Len(services) : services[i].name = name}
  IN  IF hits = {} THEN 0 ELSE CHOOSE i \in hits : \A j \in hits : i <= j

\* the scan of delete_service without the break: the last match wins
MatchIdxByName_last(services, name) ==
  LET ln == lower(name)
      hits == {i \in 1..Len(services) : lower(services[i].name) = ln}
  IN  IF hits = {} THEN 0 ELSE CHOOSE i \in hits : \A j \in hits : i >= j

\* the scan of delete_service: index of the first record whose name matches, 0 for None
MatchIdxByName(services, name) ==
  LET ln == lower(name)
      hits == {i \in 1..Len(services) : lower(services[i].name) = ln}
  IN  IF hits = {} THEN 0 ELSE CHOOSE i \in hits : \A j \in hits : i <= j

\* the scan of delete_service_exact comparing the name only
MatchIdxExact_name_only(services, name, category) ==
  LET ln == lower(name)
      hits == {i \in 1..Len(services) : lower(services[i].name) = ln}
  IN  IF hits = {} THEN 0 ELSE CHOOSE i \in hits : \A j \in hits : i <= j

\* the scan of delete_service_exact
MatchIdxExact(services, name, category) ==
  LET ln == lower(name)
      lc == lower(category)
      hits == {i \in 1..Len(services) :
                 lower(services[i].name) = ln /\ lower(services[i].category) = lc}
  IN  IF hits = {} THEN 0 ELSE CHOOSE i \in hits : \A j \in hits : i <= j

\* delete_service(name)
delete_service(services, name) ==
  LET match_idx == MatchIdxByName(services, name)
  IN  IF match_idx = 0
      THEN Response(HTTP_404, ErrorBody, services)
      ELSE LET new == Pop(services, match_idx)
           IN  Response(HTTP_200, new, new)

\* delete_service_exact(name, category)
delete_service_exact(services, name, category) ==
  LET match_idx == MatchIdxExact(services, name, category)
  IN  IF match_idx = 0
      THEN Response(HTTP_404, ErrorBody, services)
      ELSE LET new == Pop(services, match_idx)
           IN  Response(HTTP_200, new, new)

----------------------------------------------------------------------------
(* Requests handled one at a time *)

Call(op, n, c) == [op |-> op, name |-> n, category |-> c]

\* what was observed of the last request: the call, the list before it and the response
Observed(call, pre, r) ==
  [op |-> call.op, name |-> call.name, category |-> call.category,
   pre |-> pre, status |-> r.status, body |-> r.body]

NoCall == [op |-> "none", name |-> None, category |-> None,
           pre |-> <<>>, status |-> 0, body |-> <<>>]

\* the scenario of the testable properties, as a sequence of calls
Scenario ==
  << Call("list", None, Some(compute)),
     Call("add", Redshift, Database),
     Call("add", redshift, database),
     Call("delete", ec2, None),
     Call("list", None, None) >>

SameCall(a, b) == a.op = b.op /\ a.name = b.name /\ a.category = b.category

ScenStep(call) ==
  IF scen >= 0 /\ scen < Len(Scenario) /\ SameCall(Scenario[scen + 1], call)
  THEN scen + 1
  ELSE -1

Handle(call, r) ==
  /\ aws_services' = r.services
  /\ last' = Observed(call, aws_services, r)
  /\ scen' = ScenStep(call)
  /\ UNCHANGED concVars

\* GET /services
List ==
  \E n \in NameFilters, c \in CategoryFilters :
    Handle(Call("list", n, c), get_services(aws_services, n, c))

\* POST /services
Add ==
  \E n \in NameInputs, c \in CategoryInputs :
    /\ Len(add_service(aws_services, n, c).services) <= MaxLen
    /\ Handle(Call("add", n, c), add_service(aws_services, n, c))

\* DELETE /services/{name}
RemoveByName ==
  \E n \in PathNames :
    Handle(Call("delete", n, None), delete_service(aws_services, n))

\* DELETE /services/{name}/{category}
RemoveByNameAndCategory ==
  \E n \in PathNames, c \in PathCategories :
    Handle(Call("delete_exact", n, c), delete_service_exact(aws_services, n, c))

Threads == {1, 2}

\* the response of a worker thread: the status and body it returns, the record it
\* popped (if any), and the exception that escaped the handler (if any)
NoResponse == [status |-> 0, body |-> <<>>, popped |-> <<>>, raised |-> "none"]

Init ==
  /\ aws_services = SeedServices
  /\ last = NoCall
  /\ scen = 0
  /\ pc = [t \in Threads |-> "idle"]
  /\ req = [t \in Threads |-> Call("none", None, None)]
  /\ loc = [t \in Threads |-> 0]
  /\ resp = [t \in Threads |-> NoResponse]
  /\ start = SeedServices
  /\ round = 0

Next == List \/ Add \/ RemoveByName \/ RemoveByNameAndCategory

Spec == Init /\ [][Next]_vars

----------------------------------------------------------------------------
(* Properties of the requests handled one at a time *)

\* records a and b have the same (name, category) pair, compared case-insensitively
SamePair(a, b) == lower(a.name) = lower(b.name) /\ lower(a.category) = lower(b.category)

SameName(a, n) == lower(a.name) = lower(n)

\* s without its i-th element
Without(s, i) == SubSeq(s, 1, i - 1) \o SubSeq(s, i + 1, Len(s))

\* the subsequence of s of the records that pass Keep
Subsequence(s, Keep(_)) ==
  LET idx == {i \in 1..Len(s) : Keep(s[i])}
      nth(k) == CHOOSE i \in idx : Cardinality({j \in idx : j <= i}) = k
  IN  [k \in 1..Cardinality(idx) |-> s[nth(k)]]

LastAdd == last.op = "add"
LastNew == Svc(last.name, last.category)

\* C1: in every state reachable from the seed by add, removeByName,
\* removeByNameAndCategory and list calls, no two records of the registry have
\* the same (name, category) pair compared case-insensitively.
C1_UniquePairs ==
  \A i, j \in 1..Len(aws_services) :
    i # j => ~SamePair(aws_services[i], aws_services[j])

\* an add has succeeded with a name another record already carries under another category
C1_Witness ==
  /\ LastAdd /\ last.status = HTTP_201
  /\ \E i \in 1..Len(last.pre) : SameName(last.pre[i], last.name)

\* C2: add of a non-empty name that is not digits-only with a non-empty category,
\* the pair matching no existing record case-insensitively, succeeds; the registry
\* is then the previous registry with the new record appended last, the pair
\* appears exactly once, and the response is the whole updated registry.
C2_AddSucceeds ==
  ( /\ LastAdd
    /\ Len(last.name) > 0 /\ Len(last.category) > 0
    /\ \E i \in 1..Len(last.name) : last.name[i] \notin Digits
    /\ \A i \in 1..Len(last.pre) : ~SamePair(last.pre[i], LastNew) )
  => /\ last.status = HTTP_201
     /\ aws_services = Append(last.pre, LastNew)
     /\ aws_services[Len(aws_services)] = LastNew
     /\ Cardinality({i \in 1..Len(aws_services) : SamePair(aws_services[i], LastNew)}) = 1
     /\ last.body = aws_services

\* an add of a name that holds a digit has succeeded on a non-empty registry
C2_Witness ==
  /\ LastAdd /\ last.status = HTTP_201
  /\ \E i \in 1..Len(last.name) : last.name[i] \in Digits
  /\ Len(last.pre) > 0

\* C3: add of a pair that equals an existing record's pair case-insensitively
\* fails with Conflict (409) and leaves the registry as it was.
C3_AddConflict ==
  (LastAdd /\ \E i \in 1..Len(last.pre) : SamePair(last.pre[i], LastNew))
  => /\ last.status = HTTP_409
     /\ aws_services = last.pre

\* an add was refused as a conflict although no record is spelled like the new pair
C3_Witness ==
  /\ LastAdd /\ last.status = HTTP_409
  /\ \A i \in 1..Len(last.pre) : last.pre[i] # LastNew
  /\ aws_services = last.pre

\* C4: add of a digits-only name with a non-empty category fails with
\* InvalidInput (400), never Conflict and never success, and leaves the registry
\* as it was; no record of the registry has a digits-only name.
C4_DigitsOnlyRejected ==
  /\ \A i \in 1..Len(aws_services) : ~isdigit(aws_services[i].name)
  /\ (LastAdd /\ isdigit(last.name) /\ Len(last.category) > 0)
     => /\ last.status = HTTP_400
        /\ aws_services = last.pre

\* an add of a digits-only name with a category was refused
C4_Witness ==
  /\ LastAdd /\ isdigit(last.name) /\ Len(last.category) > 0
  /\ last.status = HTTP_400

\* list() with no filters, on the current registry
ListAll == get_services(aws_services, None, None).body

Contains(s, r) == \E k \in 1..Len(s) : s[k] = r

\* C5 as claimed: removeByName with any case variant of the name of a record r
\* of the registry removes r itself, so a following list() does not contain r.
C5_RemovesEveryNamed ==
  last.op = "delete" =>
    \A i \in 1..Len(last.pre) :
      SameName(last.pre[i], last.name) => ~Contains(ListAll, last.pre[i])

\* C5 as amended: removeByName with any case variant of the name of a record r
\* succeeds, and removes r itself when r is the first record in registry order
\* with that name; a following list() then does not contain r.
C5_RemovesFirstNamed ==
  last.op = "delete" =>
    \A i \in 1..Len(last.pre) :
      SameName(last.pre[i], last.name) =>
        /\ last.status = HTTP_200
        /\ (\A j \in 1..(i - 1) : ~SameName(last.pre[j], last.name))
             => ~Contains(ListAll, last.pre[i])

\* removeByName was called with a name spelled differently from the record it removed
C5_Witness ==
  /\ last.op = "delete" /\ last.status = HTTP_200
  /\ \E i \in 1..Len(last.pre) :
       /\ SameName(last.pre[i], last.name)
       /\ last.pre[i].name # last.name
       /\ ~Contains(ListAll, last.pre[i])

LastMatches(r) ==
  IF last.op = "delete" THEN SameName(r, last.name)
  ELSE SamePair(r, Svc(last.name, last.category))

LastRemove == last.op \in {"delete", "delete_exact"}

\* C6: a successful removeByName or removeByNameAndCategory removes exactly the
\* first record in registry order that matches case-insensitively: the length
\* drops by 1, every other record (later records of the same name included)
\* stays in the same relative order, and the response is the updated registry.
C6_RemovesExactlyFirst ==
  (LastRemove /\ last.status = HTTP_200) =>
    /\ Len(aws_services) = Len(last.pre) - 1
    /\ \E i \in 1..Len(last.pre) :
         /\ LastMatches(last.pre[i])
         /\ \A j \in 1..(i - 1) : ~LastMatches(last.pre[j])
         /\ aws_services = Without(last.pre, i)
    /\ last.body = aws_services

\* removeByName succeeded on a registry with two records of that name
C6_Witness ==
  /\ last.op = "delete" /\ last.status = HTTP_200
  /\ \E i, j \in 1..Len(last.pre) :
       i < j /\ LastMatches(last.pre[i]) /\ LastMatches(last.pre[j])
  /\ \E k \in 1..Len(aws_services) : LastMatches(aws_services[k])

\* C7: removeByName and removeByNameAndCategory fail with NotFound (404) exactly
\* when no record matches case-insensitively, and then leave the registry as it was.
C7_NotFoundIffNoMatch ==
  LastRemove =>
    /\ last.status \in {HTTP_200, HTTP_404}
    /\ last.status = HTTP_404 <=> (\A i \in 1..Len(last.pre) : ~LastMatches(last.pre[i]))
    /\ last.status = HTTP_404 => aws_services = last.pre

\* removeByNameAndCategory found nothing although a record carries the name
C7_Witness ==
  /\ last.op = "delete_exact" /\ last.status = HTTP_404
  /\ \E i \in 1..Len(last.pre) : SameName(last.pre[i], last.name)
  /\ aws_services = last.pre

\* a filter that keeps everything when it does not apply
PassesName(r, applies, f) == applies => lower(r.name) = lower(f[1])
PassesCategory(r, applies, f) == applies => lower(r.category) = lower(f[1])

\* C8 as claimed: list returns exactly the records, in registry order, whose name
\* equals the name filter when one is given and whose category equals the
\* category filter when one is given; it never fails nor changes the registry.
C8_ListFiltersGiven ==
  last.op = "list" =>
    LET Keep(r) == /\ PassesName(r, ~IsNone(last.name), last.name)
                   /\ PassesCategory(r, ~IsNone(last.category), last.category)
    IN  /\ last.status = HTTP_200
        /\ last.body = Subsequence(last.pre, Keep)
        /\ aws_services = last.pre

\* C8 as amended: list applies a filter only when it is given and non-empty (an
\* empty filter is treated as absent); the result is a function of the registry
\* and the filters, and list never fails nor changes the registry.
C8_ListFiltersNonEmpty ==
  last.op = "list" =>
    LET Keep(r) ==
          /\ PassesName(r, ~IsNone(last.name) /\ last.name # Some(Empty), last.name)
          /\ PassesCategory(r, ~IsNone(last.category) /\ last.category # Some(Empty),
                            last.category)
    IN  /\ last.status = HTTP_200
        /\ last.body = Subsequence(last.pre, Keep)
        /\ aws_services = last.pre

\* list was called with both filters and kept some records of a name but not all
C8_Witness ==
  /\ last.op = "list" /\ ~IsNone(last.name) /\ ~IsNone(last.category)
  /\ Len(last.body) > 0
  /\ \E i \in 1..Len(last.pre) :
       SameName(last.pre[i], last.name[1]) /\ ~Contains(last.body, last.pre[i])

\* C9: from the seed, list(category="compute"), add("Redshift","Database"),
\* add("redshift","database"), removeByName("ec2"), list() give in order
\* [Lambda, EC2]; success with Redshift/Database last; Conflict; success without
\* EC2/Compute; and the five records S3, Lambda, RDS, DynamoDB, Redshift.
C9_Scenario ==
  LET added == Append(SeedServices, Svc(Redshift, Database))
      final == << Svc(S3, Storage), Svc(Lambda, Compute), Svc(RDS, Database),
                  Svc(DynamoDB, Database), Svc(Redshift, Database) >>
  IN  /\ scen = 1 => /\ last.status = HTTP_200
                     /\ last.body = << Svc(Lambda, Compute), Svc(EC2, Compute) >>
      /\ scen = 2 => last.status = HTTP_201 /\ last.body = added /\ aws_services = added
      /\ scen = 3 => last.status = HTTP_409 /\ aws_services = added
      /\ scen = 4 => last.status = HTTP_200 /\ last.body = final /\ aws_services = final
      /\ scen = 5 => last.status = HTTP_200 /\ last.body = final /\ Len(last.body) = 5

\* the five calls of the scenario have been made
C9_Witness == scen = 5 /\ last.op = "list"

----------------------------------------------------------------------------
(* Requests handled by two worker threads at once.  The handlers are plain  *)
(* `def` functions and take no lock, so a thread can be preempted between   *)
(* the statement that reads the list and the statement that changes it.     *)

ConcNames == {Redshift, redshift, ec2, dynamodb}
ConcCategories == {Database, compute}

ConcRequests ==
  {Call("add", n, c) : n \in ConcNames, c \in ConcCategories}
    \cup {Call("delete", n, None) : n \in ConcNames}
    \cup {Call("delete_exact", n, c) : n \in ConcNames, c \in ConcCategories}

FirstPc(r) == IF r.op = "add" THEN "add_check" ELSE "del_scan"

Returned(st, body, popped) == [status |-> st, body |-> body, popped |-> popped, raised |-> "none"]
Raised(exc) == [status |-> 0, body |-> <<>>, popped |-> <<>>, raised |-> exc]

\* two requests arrive and are handed to the worker threads
Dispatch ==
  /\ \A t \in Threads : pc[t] = "idle"
  /\ round < MaxRounds
  /\ \E r1, r2 \in ConcRequests :
       /\ req' = [t \in Threads |-> IF t = 1 THEN r1 ELSE r2]
       /\ pc' = [t \in Threads |-> IF t = 1 THEN FirstPc(r1) ELSE FirstPc(r2)]
  /\ resp' = [t \in Threads |-> NoResponse]
  /\ loc' = [t \in Threads |-> 0]
  /\ start' = aws_services
  /\ round' = round + 1
  /\ UNCHANGED seqVars

Finish(t, r) ==
  /\ pc' = [pc EXCEPT ![t] = "done"]
  /\ resp' = [resp EXCEPT ![t] = r]

\* add_service, lines 65-72: validation and the duplicate check
AddCheck(t) ==
  /\ pc[t] = "add_check"
  /\ LET name == req[t].name
         category == req[t].category
     IN  IF ~Truthy(name) \/ ~Truthy(category)
         THEN Finish(t, Returned(HTTP_400, ErrorBody, <<>>))
         ELSE IF <<lower(name), lower(category)>> \in existing_pairs(aws_services)
         THEN Finish(t, Returned(HTTP_409, ErrorBody, <<>>))
         ELSE pc' = [pc EXCEPT ![t] = "add_append"] /\ UNCHANGED resp
  /\ UNCHANGED <<aws_services, req, loc, start, round, last, scen>>

\* add_service, lines 74-77: the digits-only check, the append and the return
AddAppend(t) ==
  /\ pc[t] = "add_append"
  /\ IF isdigit(req[t].name)
     THEN /\ Finish(t, Returned(HTTP_400, ErrorBody, <<>>))
          /\ UNCHANGED aws_services
     ELSE /\ aws_services' = Append(aws_services, Svc(req[t].name, req[t].category))
          /\ Finish(t, Returned(HTTP_201, aws_services', <<>>))
  /\ UNCHANGED <<req, loc, start, round, last, scen>>

\* delete_service lines 83-89, delete_service_exact lines 99-105: the scan
DelScan(t) ==
  /\ pc[t] = "del_scan"
  /\ LET match_idx == IF req[t].op = "delete"
                      THEN MatchIdxByName(aws_services, req[t].name)
                      ELSE MatchIdxExact(aws_services, req[t].name, req[t].category)
     IN  IF match_idx = 0
         THEN Finish(t, Returned(HTTP_404, ErrorBody, <<>>)) /\ UNCHANGED loc
         ELSE /\ loc' = [loc EXCEPT ![t] = match_idx]
              /\ pc' = [pc EXCEPT ![t] = "del_log"]
              /\ UNCHANGED resp
  /\ UNCHANGED <<aws_services, req, start, round, last, scen>>

\* delete_service line 91, delete_service_exact line 106: aws_services[match_idx]
DelLog(t) ==
  /\ pc[t] = "del_log"
  /\ IF loc[t] > Len(aws_services)
     THEN Finish(t, Raised("IndexError"))
     ELSE pc' = [pc EXCEPT ![t] = "del_pop"] /\ UNCHANGED resp
  /\ UNCHANGED <<aws_services, req, loc, start, round, last, scen>>

\* delete_service lines 92-93, delete_service_exact lines 107-108: pop and return
DelPop(t) ==
  /\ pc[t] = "del_pop"
  /\ IF loc[t] > Len(aws_services)
     THEN /\ Finish(t, Raised("IndexError"))
          /\ UNCHANGED aws_services
     ELSE /\ aws_services' = Pop(aws_services, loc[t])
          /\ Finish(t, Returned(HTTP_200, aws_services', <<aws_services[loc[t]]>>))
  /\ UNCHANGED <<req, loc, start, round, last, scen>>

\* both responses have been sent; the workers are free again
Complete ==
  /\ \A t \in Threads : pc[t] = "done"
  /\ pc' = [t \in Threads |-> "idle"]
  /\ UNCHANGED <<aws_services, req, loc, resp, start, round, last, scen>>

ConcNext ==
  \/ Dispatch
  \/ \E t \in Threads : AddCheck(t)
  \/ \E t \in Threads : AddAppend(t)
  \/ \E t \in Threads : DelScan(t)
  \/ \E t \in Threads : DelLog(t)
  \/ \E t \in Threads : DelPop(t)
  \/ Complete

ConcSpec == Init /\ [][ConcNext]_vars

----------------------------------------------------------------------------
(* Properties of the requests handled at once *)

\* the handler of request r run alone on the list
RunAlone(services, r) ==
  IF r.op = "add" THEN add_service(services, r.name, r.category)
  ELSE IF r.op = "delete" THEN delete_service(services, r.name)
  ELSE delete_service_exact(services, r.name, r.category)

\* the two requests took effect as if run one after the other, a first
InOrder(a, b) ==
  LET ra == RunAlone(start, req[a])
      rb == RunAlone(ra.services, req[b])
  IN  /\ resp[a].raised = "none" /\ resp[a].status = ra.status
      /\ resp[b].raised = "none" /\ resp[b].status = rb.status
      /\ aws_services = rb.services

ReqMatches(r, s) ==
  IF r.op = "delete" THEN SameName(s, r.name) ELSE SamePair(s, Svc(r.name, r.category))

\* two adds of case-insensitively equal pairs never both succeed
C10_NoDoubleAdd == C1_UniquePairs

\* a remove never pops an out-of-range index
C10_NoIndexError == \A t \in Threads : resp[t].raised = "none"

\* a remove never removes a record that matches neither request
C10_NoWrongPop ==
  \A t \in Threads :
    resp[t].popped # <<>> => \E u \in Threads : ReqMatches(req[u], resp[t].popped[1])

\* C10: add and remove requests handled at once are linearized: the final
\* registry and each request's outcome are those of some sequential order of the
\* requests; two adds of case-insensitively equal pairs never both succeed, and
\* two removes never remove a record that matches neither request nor pop an
\* out-of-range index.
C10_Linearized ==
  /\ (\A t \in Threads : pc[t] = "done") => (InOrder(1, 2) \/ InOrder(2, 1))
  /\ C10_NoDoubleAdd
  /\ C10_NoIndexError
  /\ C10_NoWrongPop

====
